---- MODULE Spec2Model ----
(***************************************************************************)
(* AI-driven wealth CRM backend (src/main.py): the generic create/list     *)
(* gateway, the best-effort compliance logger, the three rule-based        *)
(* recommendation generators and the demo seed endpoint, over a document   *)
(* store reached through create_document / get_documents.                  *)
(*                                                                         *)
(* Python values: a str is a TLA+ string, None is the reserved string      *)
(* None, a dict is a function from keys to values, a list is a sequence.   *)
(* Money is kept in cents so that the float balances of the seed data are  *)
(* integers.                                                               *)
(***************************************************************************)
EXTENDS Integers, Sequences, FiniteSets, TLC

VARIABLES
    store,      \* the document database: documents in insertion order
    nextId,     \* how many identifiers the store has handed out, plus one
    reqs,       \* requests handled so far (also the server clock)
    failures,   \* store calls that have failed so far
    last,       \* the last request: operation, arguments, response, store calls
    created,    \* history of the successful api_create calls
    pc,         \* SpecRace: where each concurrent seed_demo call stands
    local       \* SpecRace: the locals of each concurrent seed_demo call

vars == <<store, nextId, reqs, failures, last, created, pc, local>>

\* ------------------------------------------------------------------ bounds

MaxRequests == 2
MaxFailures == 1
MaxSeedClients == 1

\* ------------------------------------------------------------ Python values

None == "<None>"
EmptyDict == <<>>

Get(d, k) == IF k \in DOMAIN d THEN d[k] ELSE None

Truthy(v) == v # None /\ v # ""

\* Python's `a or b`: a when a is truthy, else b (whatever b is).
PyOr(a, b) == IF Truthy(a) THEN a ELSE b

\* str.lower() on the strings the model passes through it; every other string
\* of the model has no upper-case letter and is left as it is.
Lower(s) ==
    CASE s = "Client" -> "client"
      [] s = "CLIENT" -> "client"
      [] s = "Account" -> "account"
      [] s = "Compliance" -> "compliance"
      [] s = "COMPLIANCE" -> "compliance"
      [] s = "Alex" -> "alex"
      [] s = "Jordan" -> "jordan"
      [] s = "Taylor" -> "taylor"
      [] s = "Morgan" -> "morgan"
      [] s = "Casey" -> "casey"
      [] s = "Riley" -> "riley"
      [] s = "Avery" -> "avery"
      [] s = "Quinn" -> "quinn"
      [] s = "Peyton" -> "peyton"
      [] s = "Dakota" -> "dakota"
      [] s = "Jamie" -> "jamie"
      [] s = "Cameron" -> "cameron"
      [] s = "Robin" -> "robin"
      [] s = "Skyler" -> "skyler"
      [] s = "Kendall" -> "kendall"
      [] s = "Emerson" -> "emerson"
      [] s = "Rowan" -> "rowan"
      [] s = "Hayden" -> "hayden"
      [] s = "Sage" -> "sage"
      [] s = "Reese" -> "reese"
      [] s = "Smith" -> "smith"
      [] s = "Lee" -> "lee"
      [] s = "Brown" -> "brown"
      [] s = "Wilson" -> "wilson"
      [] s = "Martinez" -> "martinez"
      [] s = "Clark" -> "clark"
      [] s = "Lopez" -> "lopez"
      [] s = "Davis" -> "davis"
      [] s = "Lewis" -> "lewis"
      [] s = "Walker" -> "walker"
      [] OTHER -> s

Min(a, b) == IF a < b THEN a ELSE b

RECURSIVE SumSeq(_)
SumSeq(s) == IF s = <<>> THEN 0 ELSE Head(s) + SumSeq(Tail(s))

\* ------------------------------------------------------- the store adapter

\* The text of the n-th identifier the store assigns.
Oid(n) == "oid" \o ToString(n)

StorageError == "StorageError"

\* The execution context of one handler: the store it works on, the calls it
\* has made, the calls that are going to fail, the exception in flight ("" for
\* none) and the value of its last call.
Context(fails) ==
    [store |-> store, nextId |-> nextId, now |-> reqs, trace |-> <<>>,
     fails |-> fails, err |-> "", ret |-> None]

Call(op, coll, data, via, ok, id) ==
    [op |-> op, coll |-> coll, data |-> data, via |-> via, ok |-> ok, id |-> id]

\* create_document(collection, data) -> id, called from the function `via`.
create_document(c, coll, data, via) ==
    IF Len(c.trace) + 1 \in c.fails
    THEN [c EXCEPT !.trace = Append(@, Call("create_document", coll, data, via, FALSE, None)),
                   !.err = StorageError,
                   !.ret = None]
    ELSE LET id == Oid(c.nextId) IN
         [c EXCEPT !.store = Append(@, [id |-> id, coll |-> coll, data |-> data, via |-> via]),
                   !.nextId = @ + 1,
                   !.trace = Append(@, Call("create_document", coll, data, via, TRUE, id)),
                   !.ret = id]

\* A document matches a filter when it equals it on every key; "_id" is the
\* store-assigned identifier.
Matches(doc, filter) ==
    \A k \in DOMAIN filter :
        IF k = "_id" THEN doc.id = filter[k]
        ELSE k \in DOMAIN doc.data /\ doc.data[k] = filter[k]

InCollection(s, coll, filter) ==
    SelectSeq(s, LAMBDA doc : doc.coll = coll /\ Matches(doc, filter))

\* get_documents(collection, filter, limit) -> the first `limit` matches.
get_documents(c, coll, filter, limit, via) ==
    IF Len(c.trace) + 1 \in c.fails
    THEN [c EXCEPT !.trace = Append(@, Call("get_documents", coll, filter, via, FALSE, None)),
                   !.err = StorageError,
                   !.ret = <<>>]
    ELSE LET found == InCollection(c.store, coll, filter) IN
         [c EXCEPT !.trace = Append(@, Call("get_documents", coll, filter, via, TRUE, None)),
                   !.ret = SubSeq(found, 1, Min(limit, Len(found)))]

\* ---------------------------------------------------- the compliance logger

ComplianceDoc(action, resource_type, resource_id, labels, actor_id, context, now) ==
    [action |-> action,
     actor_id |-> actor_id,
     resource_type |-> resource_type,
     resource_id |-> resource_id,
     context |-> context,
     labels |-> labels,
     severity |-> "info",
     timestamp |-> now]

\* The logger without its try/except: the store's failure reaches the caller.
LogComplianceRaising(c, action, resource_type, resource_id, labels, actor_id, context) ==
    create_document(c, "compliance",
        ComplianceDoc(action, resource_type, resource_id, labels, actor_id, context, c.now),
        "_log_compliance")

\* _log_compliance: best effort, the exception of the write is swallowed.
_log_compliance(c, action, resource_type, resource_id, labels, actor_id, context) ==
    LET w == create_document(c, "compliance",
                 ComplianceDoc(action, resource_type, resource_id, labels, actor_id,
                               context, c.now),
                 "_log_compliance")
    IN [w EXCEPT !.err = "", !.ret = None]

\* ------------------------------------------------------------- the gateway

Response(c, status, body) == [c |-> c, status |-> status, body |-> body]

\* raise HTTPException(status_code=400, detail=str(e))
BadRequest(c) == Response([c EXCEPT !.err = ""], 400, [detail |-> c.err])

\* An exception no handler catches: the framework answers 500.
ServerError(c) == Response([c EXCEPT !.err = ""], 500, [detail |-> "Internal Server Error"])

\* The actor of an api_create call.
ActorOf(data) == PyOr(Get(data, "author_id"), Get(data, "assignee_id"))

api_create(c0, collection, data) ==
    LET collection_l == Lower(collection)
        c1 == create_document(c0, collection_l, data, "api_create")
        c2 == _log_compliance(c1, "create_document", collection_l, c1.ret,
                              <<"auto-log", "create">>, ActorOf(data),
                              [fields |-> DOMAIN data])
    IN IF c1.err # "" THEN BadRequest(c1)
       ELSE IF c2.err # "" THEN BadRequest(c2)
       ELSE Response(c2, 200, [id |-> c1.ret])

\* api_list without the lower-casing of the collection name.
ApiListAsGiven(c0, collection, limit) ==
    LET c1 == get_documents(c0, collection, EmptyDict, limit, "api_list")
    IN IF c1.err # "" THEN BadRequest(c1)
       ELSE Response(c1, 200, [items |-> c1.ret])

api_list(c0, collection, limit) ==
    LET c1 == get_documents(c0, Lower(collection), EmptyDict, limit, "api_list")
    IN IF c1.err # "" THEN BadRequest(c1)
       ELSE Response(c1, 200, [items |-> c1.ret])

\* ------------------------------------------------ recommendation generators

Balance(a) == IF "balance" \in DOMAIN a.data THEN a.data["balance"] ELSE 0

\* for acc_id in req.account_ids: accounts.extend(get_documents("account", {"_id": acc_id}, 1))
RECURSIVE AccountsById(_, _, _)
AccountsById(c, ids, accounts) ==
    IF ids = <<>> \/ c.err # "" THEN [c |-> c, accounts |-> accounts]
    ELSE LET r == get_documents(c, "account", [_id |-> Head(ids)], 1, "ai_portfolio_analysis")
         IN AccountsById(r, Tail(ids), accounts \o r.ret)

\* The household read of the analysis, limited to 500 documents.
AccountsOfHousehold(c, household_id) ==
    LET r == get_documents(c, "account", [household_id |-> household_id], 500,
                           "ai_portfolio_analysis")
    IN [c |-> r, accounts |-> r.ret]

TargetAllocations == [equities |-> 60, fixed_income |-> 35, cash |-> 5]

PortfolioRecommendation(household_id, total) ==
    [category |-> "investment",
     title |-> "Rebalance to target policy mix",
     rationale |-> "Target diversified allocation with emphasis on risk-adjusted returns.",
     impact_score |-> 72,
     household_id |-> household_id,
     details |-> [current_total |-> total, target_allocations |-> TargetAllocations],
     status |-> "proposed"]

ai_portfolio_analysis(c0, req) ==
    LET read == IF req.account_ids # <<>> THEN AccountsById(c0, req.account_ids, <<>>)
                ELSE IF Truthy(req.household_id) THEN AccountsOfHousehold(c0, req.household_id)
                ELSE [c |-> c0, accounts |-> <<>>]
        total == SumSeq([k \in 1..Len(read.accounts) |-> Balance(read.accounts[k])])
        c1 == create_document(read.c, "recommendation",
                              PortfolioRecommendation(req.household_id, total),
                              "ai_portfolio_analysis")
        c2 == _log_compliance(c1, "generate_recommendation", "recommendation", c1.ret,
                              <<"ai", "portfolio">>, None, [category |-> "investment"])
    IN IF read.c.err # "" THEN ServerError(read.c)
       ELSE IF c1.err # "" THEN ServerError(c1)
       ELSE IF c2.err # "" THEN ServerError(c2)
       ELSE Response(c2, 200,
                [summary |-> [total_balance |-> total, target_allocations |-> TargetAllocations],
                 recommendation_id |-> c1.ret])

TaxStrategy ==
    [harvest_loss_threshold |-> 3000,
     asset_location |-> "place bonds in tax-advantaged accounts",
     roth_conversion |-> "consider partial conversions if current bracket < future"]

TaxRecommendation(year) ==
    [category |-> "tax",
     title |-> "Tax optimization opportunities for " \o ToString(year),
     rationale |-> "Based on standard tax-efficient investing heuristics.",
     impact_score |-> 65,
     details |-> TaxStrategy,
     status |-> "proposed"]

ai_tax_optimization(c0, req) ==
    LET c1 == create_document(c0, "recommendation", TaxRecommendation(req.year),
                              "ai_tax_optimization")
        c2 == _log_compliance(c1, "generate_recommendation", "recommendation", c1.ret,
                              <<"ai", "tax">>, None, [category |-> "tax", year |-> req.year])
    IN IF c1.err # "" THEN ServerError(c1)
       ELSE IF c2.err # "" THEN ServerError(c2)
       ELSE Response(c2, 200, [recommendation_id |-> c1.ret, strategy |-> TaxStrategy])

EstatePlan ==
    [will_status |-> "review_needed",
     trust_recommendation |-> "consider revocable living trust",
     beneficiary_review |-> "ensure beneficiary designations align with goals"]

EstateRecommendation(household_id) ==
    [category |-> "estate",
     title |-> "Estate planning review",
     rationale |-> "Standard best-practice checks based on provided facts.",
     impact_score |-> 58,
     household_id |-> household_id,
     details |-> EstatePlan,
     status |-> "proposed"]

\* The estate handler with its two writes in the other order: the audit entry
\* first, the recommendation after it.
EstatePlanLogFirst(c0, req) ==
    LET c1 == _log_compliance(c0, "generate_recommendation", "recommendation", None,
                              <<"ai", "estate">>, None, [category |-> "estate"])
        c2 == create_document(c1, "recommendation", EstateRecommendation(req.household_id),
                              "ai_estate_plan")
    IN IF c2.err # "" THEN ServerError(c2)
       ELSE Response(c2, 200, [recommendation_id |-> c2.ret, plan |-> EstatePlan])

ai_estate_plan(c0, req) ==
    LET c1 == create_document(c0, "recommendation", EstateRecommendation(req.household_id),
                              "ai_estate_plan")
        c2 == _log_compliance(c1, "generate_recommendation", "recommendation", c1.ret,
                              <<"ai", "estate">>, None, [category |-> "estate"])
    IN IF c1.err # "" THEN ServerError(c1)
       ELSE IF c2.err # "" THEN ServerError(c2)
       ELSE Response(c2, 200, [recommendation_id |-> c1.ret, plan |-> EstatePlan])

\* ------------------------------------------------------------ the demo seed

_random_pick(seq, idx) == IF seq = <<>> THEN None ELSE seq[(idx % Len(seq)) + 1]

household_names ==
    <<"Johnson Household", "Patel Family", "Nguyen Household", "Garcia Family",
      "O'Connor Household">>

risk_profiles == <<"Conservative", "Moderate", "Aggressive">>

first_names ==
    <<"Alex", "Jordan", "Taylor", "Morgan", "Casey", "Riley", "Avery", "Quinn", "Peyton",
      "Dakota", "Jamie", "Cameron", "Robin", "Skyler", "Kendall", "Emerson", "Rowan",
      "Hayden", "Sage", "Reese">>

last_names ==
    <<"Smith", "Lee", "Brown", "Wilson", "Martinez", "Clark", "Lopez", "Davis", "Lewis",
      "Walker">>

account_types == <<"taxable", "ira", "roth_ira", "401k", "529", "trust">>

custodians == <<"Fidelity", "Schwab", "Vanguard", "Pershing", "TD Ameritrade">>

SeedHoldings ==
    <<[ticker |-> "VTI", weight |-> 50], [ticker |-> "BND", weight |-> 40],
      [ticker |-> "CASH", weight |-> 10]>>

\* round(float(25000 * ((i + 1) ** 1.1)) * (0.6 + 0.4 * (j / max(1, num_accounts - 1))), 2)
\* in cents, for the clients 0..5 (num_accounts = (i % 3) + 1, j < num_accounts).
SeedBalance(i, j) ==
    CASE i = 0 /\ j = 0 -> 1500000
      [] i = 1 /\ j = 0 -> 3215320
      [] i = 1 /\ j = 1 -> 5358867
      [] i = 2 /\ j = 0 -> 5022554
      [] i = 2 /\ j = 1 -> 6696739
      [] i = 2 /\ j = 2 -> 8370924
      [] i = 3 /\ j = 0 -> 6892190
      [] i = 4 /\ j = 0 -> 8809642
      [] i = 4 /\ j = 1 -> 14682737
      [] i = 5 /\ j = 0 -> 10766081
      [] i = 5 /\ j = 1 -> 14354774
      [] i = 5 /\ j = 2 -> 17943468

SeedLabels == <<"auto-log", "seed">>

\* for i, name in enumerate(household_names): create the household, log it.
RECURSIVE SeedHouseholds(_, _, _)
SeedHouseholds(c, i, household_ids) ==
    IF i >= Len(household_names) \/ c.err # ""
    THEN [c |-> c, household_ids |-> household_ids]
    ELSE LET c1 == create_document(c, "household",
                       [name |-> household_names[i + 1],
                        risk_profile |-> _random_pick(risk_profiles, i)],
                       "seed_demo")
             c2 == _log_compliance(c1, "create_document", "household", c1.ret, SeedLabels,
                                   None, [seed |-> TRUE])
         IN IF c1.err # "" THEN [c |-> c1, household_ids |-> household_ids]
            ELSE SeedHouseholds(c2, i + 1, Append(household_ids, c1.ret))

\* for j in range(num_accounts): create the account, log it.
RECURSIVE SeedAccounts(_, _, _, _, _, _)
SeedAccounts(c, i, j, num_accounts, client_id, hid) ==
    IF j >= num_accounts \/ c.err # "" THEN c
    ELSE LET c1 == create_document(c, "account",
                       [client_id |-> client_id,
                        household_id |-> hid,
                        account_type |-> account_types[((i + j) % Len(account_types)) + 1],
                        custodian |-> custodians[((i + j) % Len(custodians)) + 1],
                        account_number_masked |-> "****" \o ToString(1000 + ((i * 7 + j) % 9000)),
                        balance |-> SeedBalance(i, j),
                        holdings |-> SeedHoldings],
                       "seed_demo")
             c2 == _log_compliance(c1, "create_document", "account", c1.ret, SeedLabels,
                                   None, [seed |-> TRUE])
         IN IF c1.err # "" THEN c1
            ELSE SeedAccounts(c2, i, j + 1, num_accounts, client_id, hid)

\* for i in range(req.count_clients): create the client, count it, log it,
\* then its accounts.
RECURSIVE SeedClients(_, _, _, _, _)
SeedClients(c, i, count_clients, household_ids, created_clients) ==
    IF i >= count_clients \/ c.err # ""
    THEN [c |-> c, created_clients |-> created_clients]
    ELSE LET fn == first_names[(i % Len(first_names)) + 1]
             ln == last_names[(i % Len(last_names)) + 1]
             email == Lower(fn) \o "." \o Lower(ln) \o "@example.com"
             hid == _random_pick(household_ids, i)
             c1 == create_document(c, "client",
                       [first_name |-> fn, last_name |-> ln, email |-> email,
                        household_id |-> hid, kyc_status |-> "approved"],
                       "seed_demo")
             c2 == _log_compliance(c1, "create_document", "client", c1.ret, SeedLabels,
                                   None, [seed |-> TRUE])
             c3 == SeedAccounts(c2, i, 0, (i % 3) + 1, c1.ret, hid)
         IN IF c1.err # "" THEN [c |-> c1, created_clients |-> created_clients]
            ELSE SeedClients(c3, i + 1, count_clients, household_ids, created_clients + 1)

\* existing = get_documents("client", {}, 1)
SeedGuard(c0) == get_documents(c0, "client", EmptyDict, 1, "seed_demo")

\* The handler from `if existing:` on, with a guard that never skips.
SeedUnguarded(c1, existing, count_clients) ==
    LET h == SeedHouseholds(c1, 0, <<>>)
        k == SeedClients(h.c, 0, count_clients, h.household_ids, 0)
    IN IF c1.err # "" THEN BadRequest(c1)
       ELSE IF k.c.err # "" THEN BadRequest(k.c)
       ELSE Response(k.c, 200,
                [status |-> "ok", message |-> "Demo data created",
                 created |-> k.created_clients])

\* The handler from `if existing:` on, with the guard read again in the same
\* step as the writes: a check and a write that nothing can come between.
SeedBodyAtomic(c1, existing, count_clients) ==
    LET now_existing == InCollection(c1.store, "client", EmptyDict)
        h == SeedHouseholds(c1, 0, <<>>)
        k == SeedClients(h.c, 0, count_clients, h.household_ids, 0)
    IN IF c1.err # "" THEN BadRequest(c1)
       ELSE IF now_existing # <<>>
       THEN Response(c1, 200,
                [status |-> "ok", message |-> "Clients already exist; skipping seed.",
                 created |-> 0])
       ELSE IF k.c.err # "" THEN BadRequest(k.c)
       ELSE Response(k.c, 200,
                [status |-> "ok", message |-> "Demo data created",
                 created |-> k.created_clients])

\* The handler from `if existing:` on.
SeedBody(c1, existing, count_clients) ==
    LET h == SeedHouseholds(c1, 0, <<>>)
        k == SeedClients(h.c, 0, count_clients, h.household_ids, 0)
    IN IF c1.err # "" THEN BadRequest(c1)
       ELSE IF existing # <<>>
       THEN Response(c1, 200,
                [status |-> "ok", message |-> "Clients already exist; skipping seed.",
                 created |-> 0])
       ELSE IF k.c.err # "" THEN BadRequest(k.c)
       ELSE Response(k.c, 200,
                [status |-> "ok", message |-> "Demo data created",
                 created |-> k.created_clients])

seed_demo(c0, count_clients) ==
    LET c1 == SeedGuard(c0) IN SeedBody(c1, c1.ret, count_clients)

\* ------------------------------------------------------ requests and failures

\* The request bodies the clients send.
Absent == "<absent>"

WithActors(author_id, assignee_id) ==
    [k \in {"title"} \cup (IF author_id = Absent THEN {} ELSE {"author_id"})
                     \cup (IF assignee_id = Absent THEN {} ELSE {"assignee_id"}) |->
        CASE k = "title" -> "Call the client"
          [] k = "author_id" -> author_id
          [] k = "assignee_id" -> assignee_id]

TaskPayloads ==
    {[collection |-> "task", data |-> WithActors(a, b)] :
        a \in {None, "", "u1"}, b \in {Absent, "", "u2"}}

ClientPayloads ==
    {[collection |-> "Client", data |-> [first_name |-> "Alex", last_name |-> "Smith"]]}

AccountPayloads ==
    {[collection |-> "account",
      data |-> [client_id |-> "c1", household_id |-> "h1", balance |-> b]] :
        b \in {10000, 20000}}
    \cup {[collection |-> "account", data |-> [client_id |-> "c1", household_id |-> "h1"]]}

\* A client that writes into the audit collection itself, with a document that
\* reads like the record of an earlier create.
CompliancePayloads ==
    {[collection |-> "Compliance",
      data |-> [action |-> "create_document", resource_type |-> "client",
                resource_id |-> Oid(1)]]}

CreatePayloads == ClientPayloads \cup TaskPayloads \cup AccountPayloads \cup CompliancePayloads

ListRequests ==
    {[collection |-> "CLIENT", limit |-> 1]}
    \cup {[collection |-> n, limit |-> 50] :
            n \in {"client", "CLIENT", "account", "compliance", "unknown_collection"}}

PortfolioRequests ==
    {[household_id |-> h, account_ids |-> <<>>] : h \in {None, "", "h1", Oid(1)}}
    \cup {[household_id |-> "h1", account_ids |-> ids] :
            ids \in {<<Oid(1)>>, <<Oid(1), Oid(1)>>, <<Oid(1), Oid(3)>>}}

TaxRequests == {[household_id |-> None, year |-> 2024]}

EstateRequests == {[household_id |-> "h1"]}

\* The sets of at most `budget` call numbers among 1..n: the store calls of one
\* handler that fail.
RECURSIVE FailSets(_, _)
FailSets(n, budget) ==
    IF budget <= 0 THEN {{}}
    ELSE LET smaller == FailSets(n, budget - 1)
         IN smaller \cup {F \cup {k} : F \in smaller, k \in 1..n}

Failed(trace) == Cardinality({k \in 1..Len(trace) : ~trace[k].ok})

\* The store calls of a seed_demo call that runs to its end.
RECURSIVE SeedWrites(_)
SeedWrites(count_clients) ==
    IF count_clients <= 0 THEN Len(household_names)
    ELSE SeedWrites(count_clients - 1) + 1 + ((count_clients - 1) % 3) + 1

SeedCalls(count_clients) == 1 + 2 * SeedWrites(count_clients)

SeedCounts == {0, MaxSeedClients}

Callers == {1, 2}

NoRequest == [op |-> "none", args |-> EmptyDict, status |-> 0, body |-> EmptyDict, trace |-> <<>>]

Init ==
    /\ store = <<>>
    /\ nextId = 1
    /\ reqs = 0
    /\ failures = 0
    /\ last = NoRequest
    /\ created = {}
    /\ pc = [k \in Callers |-> "idle"]
    /\ local = [k \in Callers |-> NoRequest]

\* One request handled from its first line to its response.
Handled(op, args, r) ==
    /\ store' = r.c.store
    /\ nextId' = r.c.nextId
    /\ reqs' = reqs + 1
    /\ failures' = failures + Failed(r.c.trace)
    /\ last' = [op |-> op, args |-> args, status |-> r.status, body |-> r.body,
                trace |-> r.c.trace]

ApiCreate ==
    /\ reqs < MaxRequests
    /\ \E p \in CreatePayloads, F \in FailSets(2, MaxFailures - failures) :
        LET r == api_create(Context(F), p.collection, p.data) IN
        /\ Handled("api_create", p, r)
        /\ created' = IF r.status = 200
                      THEN created \cup {[coll |-> Lower(p.collection), data |-> p.data,
                                          id |-> r.body.id,
                                          logged |-> Failed(r.c.trace) = 0]}
                      ELSE created
    /\ UNCHANGED <<pc, local>>

ApiList ==
    /\ reqs < MaxRequests
    /\ \E req \in ListRequests, F \in FailSets(1, MaxFailures - failures) :
        Handled("api_list", req, api_list(Context(F), req.collection, req.limit))
    /\ UNCHANGED <<created, pc, local>>

AiPortfolioAnalysis ==
    /\ reqs < MaxRequests
    /\ \E req \in PortfolioRequests :
       \E F \in FailSets(Len(req.account_ids) + 3, MaxFailures - failures) :
        Handled("ai_portfolio_analysis", req, ai_portfolio_analysis(Context(F), req))
    /\ UNCHANGED <<created, pc, local>>

AiTaxOptimization ==
    /\ reqs < MaxRequests
    /\ \E req \in TaxRequests, F \in FailSets(2, MaxFailures - failures) :
        Handled("ai_tax_optimization", req, ai_tax_optimization(Context(F), req))
    /\ UNCHANGED <<created, pc, local>>

AiEstatePlan ==
    /\ reqs < MaxRequests
    /\ \E req \in EstateRequests, F \in FailSets(2, MaxFailures - failures) :
        Handled("ai_estate_plan", req, ai_estate_plan(Context(F), req))
    /\ UNCHANGED <<created, pc, local>>

SeedDemo ==
    /\ reqs < MaxRequests
    /\ \E count_clients \in SeedCounts :
       \E F \in FailSets(SeedCalls(count_clients), MaxFailures - failures) :
        Handled("seed_demo", [count_clients |-> count_clients],
                seed_demo(Context(F), count_clients))
    /\ UNCHANGED <<created, pc, local>>

Next ==
    \/ ApiCreate
    \/ ApiList
    \/ AiPortfolioAnalysis
    \/ AiTaxOptimization
    \/ AiEstatePlan
    \/ SeedDemo

Spec == Init /\ [][Next]_vars

\* ------------------------------------------------- concurrent seed_demo calls
\* Each call runs on its own worker thread and gives way at its store calls:
\* the guard's read is one step, the writes that follow it are the next.

SeedBegin(k) ==
    /\ pc[k] = "idle"
    /\ \E count_clients \in SeedCounts, F \in FailSets(1, MaxFailures - failures) :
        LET c1 == SeedGuard(Context(F)) IN
        /\ local' = [local EXCEPT ![k] = [count_clients |-> count_clients, guard |-> c1]]
        /\ failures' = failures + Failed(c1.trace)
    /\ pc' = [pc EXCEPT ![k] = "checked"]
    /\ UNCHANGED <<store, nextId, reqs, last, created>>

SeedFinish(k) ==
    /\ pc[k] = "checked"
    /\ \E F \in FailSets(SeedCalls(local[k].count_clients), MaxFailures - failures) :
        LET c1 == [local[k].guard EXCEPT !.store = store, !.nextId = nextId,
                                         !.fails = F \ {1}]
            r == SeedBody(c1, local[k].guard.ret, local[k].count_clients)
        IN /\ store' = r.c.store
           /\ nextId' = r.c.nextId
           /\ reqs' = reqs + 1
           /\ failures' = failures + Failed(r.c.trace) - Failed(local[k].guard.trace)
           /\ last' = [op |-> "seed_demo",
                       args |-> [count_clients |-> local[k].count_clients],
                       status |-> r.status, body |-> r.body, trace |-> r.c.trace]
           /\ local' = [local EXCEPT ![k] =
                  [count_clients |-> local[k].count_clients, guard |-> local[k].guard,
                   status |-> r.status, body |-> r.body, trace |-> r.c.trace]]
    /\ pc' = [pc EXCEPT ![k] = "done"]
    /\ UNCHANGED created

NextRace == \E k \in Callers : SeedBegin(k) \/ SeedFinish(k)

SpecRace == Init /\ [][NextRace]_vars

\* ------------------------------------------------------------------ claims

Stored(coll) == InCollection(store, coll, EmptyDict)

Generators == {"ai_portfolio_analysis", "ai_tax_optimization", "ai_estate_plan"}

\* The store calls of the last request that failed outside the logger.
PrimaryFailures ==
    {k \in 1..Len(last.trace) : ~last.trace[k].ok /\ last.trace[k].via # "_log_compliance"}

LoggerFailures ==
    {k \in 1..Len(last.trace) : ~last.trace[k].ok /\ last.trace[k].via = "_log_compliance"}

\* The documents the last request wrote outside the logger.
PrimaryWrites ==
    {k \in 1..Len(last.trace) :
        /\ last.trace[k].op = "create_document"
        /\ last.trace[k].ok
        /\ last.trace[k].via # "_log_compliance"}

IsStored(call) ==
    \E i \in 1..Len(store) :
        store[i].id = call.id /\ store[i].coll = call.coll /\ store[i].data = call.data

\* A compliance document that reads as the record of the create `e`.
RecordsCreate(doc, e) ==
    /\ doc.coll = "compliance"
    /\ Get(doc.data, "resource_id") = e.id
    /\ Get(doc.data, "resource_type") = e.coll
    /\ Get(doc.data, "action") = "create_document"

\* C1: every successful api_create whose compliance write did not fail is
\* recorded by exactly one document of the compliance collection (resource_id
\* the new id, resource_type the lower-cased collection, action
\* "create_document"), whatever calls follow, creates into "compliance" included.
C1_CreateRecordedExactlyOnce ==
    \A e \in created :
        e.logged => Cardinality({i \in 1..Len(store) : RecordsCreate(store[i], e)}) = 1

\* C2: a failed compliance write never fails the request. When the only store
\* calls of a request that failed are the logger's, the request answers 200,
\* every document it wrote is stored, and api_create and the generators return
\* the id of the document they wrote.
C2_LogFailureNeverPropagates ==
    (last.op # "none" /\ LoggerFailures # {} /\ PrimaryFailures = {}) =>
        /\ last.status = 200
        /\ \A k \in PrimaryWrites : IsStored(last.trace[k])
        /\ last.op = "api_create" =>
              \E k \in PrimaryWrites : last.body = [id |-> last.trace[k].id]
        /\ last.op \in Generators =>
              \E k \in PrimaryWrites : last.body.recommendation_id = last.trace[k].id
        /\ last.op = "seed_demo" => last.body.created = last.args.count_clients

C2_Witness ==
    /\ last.op = "api_create"
    /\ LoggerFailures # {}
    /\ last.status = 200
    /\ \E i \in 1..Len(store) : store[i].id = last.body.id /\ store[i].via = "api_create"

\* C3: every store failure inside a gateway endpoint or an AI endpoint is
\* answered with HTTP 400 carrying the error's message.
C3_FailuresAnswered400 ==
    (last.op \in {"api_create", "api_list"} \cup Generators /\ PrimaryFailures # {}) =>
        last.status = 400 /\ last.body = [detail |-> StorageError]

C5_SeedSkipsWhenClientsExist ==
    [][(/\ reqs' = reqs + 1
        /\ last'.op = "seed_demo"
        /\ Stored("client") # <<>>) =>
           /\ store' = store
           /\ nextId' = nextId
           /\ IF last'.trace[1].ok
              THEN last'.status = 200 /\ last'.body.created = 0
              ELSE last'.status = 400]_vars

C5_Witness ==
    /\ last.op = "seed_demo"
    /\ last.status = 200
    /\ last.body.created = 0
    /\ Len(last.trace) = 1
    /\ Stored("client") # <<>>
    /\ last.args.count_clients > 0

\* C6: every document of the compliance collection was written by
\* _log_compliance; no request puts a document of its own there.
C6_ComplianceOnlyByLogger ==
    \A i \in 1..Len(store) : store[i].coll = "compliance" => store[i].via = "_log_compliance"

\* The compliance entry of a generated recommendation.
IsGenerationEntry(data, id) ==
    /\ data.action = "generate_recommendation"
    /\ data.actor_id = None
    /\ data.resource_type = "recommendation"
    /\ data.resource_id = id

\* C7: a generator that answers 200 has added exactly one recommendation, with
\* status "proposed" and the id it returns, and after that write has issued
\* exactly one compliance write (action "generate_recommendation", actor_id
\* none, resource_type "recommendation", resource_id that id), which is stored
\* unless the store failed it; in no call of a generator is a compliance write
\* issued before, or without, a successful recommendation write.
C7_RecommendationThenEntry ==
    [][(reqs' = reqs + 1 /\ last'.op \in Generators) =>
        LET t == last'.trace
            recs == {k \in 1..Len(t) : t[k].op = "create_document"
                                        /\ t[k].coll = "recommendation" /\ t[k].ok}
            logs == {k \in 1..Len(t) : t[k].op = "create_document"
                                        /\ t[k].coll = "compliance"}
        IN /\ \A j \in logs : \E k \in recs : k < j
           /\ last'.status = 200 =>
                /\ Cardinality(recs) = 1
                /\ Cardinality(logs) = 1
                /\ Len(InCollection(store', "recommendation", EmptyDict))
                      = Len(Stored("recommendation")) + 1
                /\ \A k \in recs :
                      /\ t[k].data.status = "proposed"
                      /\ t[k].id = last'.body.recommendation_id
                      /\ \E i \in 1..Len(store') :
                            store'[i].id = t[k].id /\ store'[i].data = t[k].data
                      /\ \A j \in logs :
                            /\ IsGenerationEntry(t[j].data, t[k].id)
                            /\ t[j].via = "_log_compliance"
                            /\ Len(InCollection(store', "compliance", EmptyDict))
                                  = Len(Stored("compliance")) + (IF t[j].ok THEN 1 ELSE 0)
                            /\ t[j].ok => \E i \in 1..Len(store') :
                                  store'[i].id = t[j].id /\ store'[i].data = t[j].data
           /\ last'.status # 200 =>
                /\ logs = {}
                /\ InCollection(store', "compliance", EmptyDict) = Stored("compliance")]_vars

C7_Witness ==
    /\ last.op = "ai_estate_plan"
    /\ last.status = 200
    /\ \E i \in 1..Len(store) :
          /\ store[i].coll = "recommendation"
          /\ store[i].id = last.body.recommendation_id
          /\ store[i].data.status = "proposed"
    /\ \E i \in 1..Len(store) :
          /\ store[i].coll = "compliance"
          /\ IsGenerationEntry(store[i].data, last.body.recommendation_id)

\* The actor the documentation describes: the first non-empty of author_id and
\* assignee_id, none when neither is.
FirstNonEmptyActor(data) ==
    IF Truthy(Get(data, "author_id")) THEN data["author_id"]
    ELSE IF Truthy(Get(data, "assignee_id")) THEN data["assignee_id"]
    ELSE None

\* C8: the compliance entry of an api_create call records as actor_id the
\* first non-empty of data.author_id and data.assignee_id, and none otherwise:
\* never an empty value other than none.
C8_ActorFirstNonEmptyElseNone ==
    last.op = "api_create" =>
        \A k \in 1..Len(last.trace) :
            last.trace[k].via = "_log_compliance" =>
                /\ last.trace[k].data.actor_id = FirstNonEmptyActor(last.args.data)
                /\ last.trace[k].data.actor_id = None \/ Truthy(last.trace[k].data.actor_id)

\* The accounts a portfolio request is about: those whose id is listed when
\* ids are given, else the first 500 of the household when one is given, else
\* none.
MatchingAccounts(req) ==
    IF req.account_ids # <<>>
    THEN SelectSeq(Stored("account"),
                   LAMBDA a : \E n \in 1..Len(req.account_ids) : a.id = req.account_ids[n])
    ELSE IF Truthy(req.household_id)
    THEN LET of_household == SelectSeq(Stored("account"),
                                 LAMBDA a : Get(a.data, "household_id") = req.household_id)
         IN SubSeq(of_household, 1, Min(500, Len(of_household)))
    ELSE <<>>

\* C9: a portfolio analysis that answers 200 returns as total_balance the sum
\* of the balances (0 when missing) of the matching accounts, and the fixed
\* target allocations.
C9_TotalIsSumOfMatching ==
    (last.op = "ai_portfolio_analysis" /\ last.status = 200) =>
        LET accounts == MatchingAccounts(last.args) IN
        /\ last.body.summary.total_balance
              = SumSeq([n \in 1..Len(accounts) |-> Balance(accounts[n])])
        /\ last.body.summary.target_allocations
              = [equities |-> 60, fixed_income |-> 35, cash |-> 5]

\* A seed_demo call that has returned after its guard read found no client and
\* none of its writes failed.
SeededInFull(k) ==
    /\ pc[k] = "done"
    /\ local[k].guard.err = ""
    /\ local[k].guard.ret = <<>>
    /\ \A n \in 1..Len(local[k].trace) :
          local[k].trace[n].ok \/ local[k].trace[n].via = "_log_compliance"

WrittenBy(k, coll) ==
    {n \in 1..Len(local[k].trace) :
        /\ local[k].trace[n].op = "create_document"
        /\ local[k].trace[n].coll = coll
        /\ local[k].trace[n].ok
        /\ IsStored(local[k].trace[n])}

\* C10: the guard of seed_demo is a read followed, in a later step, by the
\* writes. A call whose guard read found no client seeds in full and returns
\* created == count_clients whatever another call has written since the read,
\* so two interleaved calls both seed.
C10_GuardReadThenWrite ==
    \A k \in Callers :
        SeededInFull(k) =>
            /\ local[k].status = 200
            /\ local[k].body.created = local[k].count_clients
            /\ Cardinality(WrittenBy(k, "household")) = Len(household_names)
            /\ Cardinality(WrittenBy(k, "client")) = local[k].count_clients
            /\ Cardinality(WrittenBy(k, "account"))
                  = SeedWrites(local[k].count_clients) - Len(household_names)
                        - local[k].count_clients

C10_DoubleSeeded ==
    /\ \A k \in Callers :
          /\ pc[k] = "done"
          /\ local[k].status = 200
          /\ local[k].count_clients > 0
          /\ local[k].body.created = local[k].count_clients
    /\ Len(Stored("household")) = 2 * Len(household_names)
    /\ Len(Stored("client")) = local[1].count_clients + local[2].count_clients
    /\ Len(Stored("account")) + Len(Stored("client")) + Len(Stored("household"))
          = SeedWrites(local[1].count_clients) + SeedWrites(local[2].count_clients)

====
